---- MODULE Spec2Model ----
(***************************************************************************)
(* Model of ralphex.                                                       *)
(*                                                                         *)
(* Spec: the runner (package runner): Runner.Run and the phase loops       *)
(* runTaskPhase, runClaudeReview and runCodexPhase, the signal predicates  *)
(* and the prompt builders.  Text (prompts, outputs, plan content) is a    *)
(* sequence of tokens; an error is the chain of its messages, outermost    *)
(* first, and the empty chain is nil.  One step of the runner goes from    *)
(* one suspension point (a call of Executor.Run) to the next; the context  *)
(* can be canceled between any two steps.                                  *)
(*                                                                         *)
(* TextSpec: buildContinuePrompt on strings of bytes.                      *)
(* ReaderSpec: readLines on streams of bytes.                              *)
(* DecoderSpec: the event decoder of one invocation.                       *)
(* ProgressSpec: the progress log of one session identity and its lock.    *)
(* InvocationSpec, InvocationFairSpec: one invocation of an executor, its  *)
(* subprocess group and its cancellation.                                  *)
(*                                                                         *)
(* Each specification moves the variables of its component and leaves the  *)
(* others in their initial state.                                          *)
(***************************************************************************)
EXTENDS Integers, Sequences, FiniteSets, TLC

VARIABLES
    cfg,        \* Config: Mode, PlanFile, MaxIterations
    ctxErr,     \* ctx.Err(): Nil while the context is live
    pc,         \* position of Run
    i,          \* loop counter of the running phase loop
    lastOutput, \* runTaskPhase: lastOutput
    prompt,     \* runClaudeReview: prompt
    findings,   \* findings returned by runCodexPhase
    pass,       \* which phase call is running: task, review1, codex, review2
    rets,       \* return of each phase call: idle, active, nil, err
    err,        \* error returned by Run (Nil: success), once pc = "done"
    logPhase,   \* Logger: phase last set by SetPhase
    logPrints,  \* Logger: number of Print calls
    calls,      \* executors: the invocations so far, [exec, phase]
    inflight,   \* executors: number of invocations in progress
    received,   \* executors: prompt of the latest invocation
    lastResult, \* executors: phase call and fields of the latest Result returned
    analysis,   \* executors: Output and Error of the Result the Analysis invocation returned
    okAt,       \* per phase call: index of the invocation that met its success condition
    dirty,      \* per phase call: some result had an Error or a terminal signal
    planReads,  \* number of os.ReadFile calls on the plan file
    contInput,  \* buildContinuePrompt: its argument, a string of bytes
    contPrompt, \* buildContinuePrompt: the prompt it returned
    rdStream,   \* readLines: the bytes of the io.Reader r
    rdFailAt,   \* readLines: offset at which r fails with an error other than io.EOF, or -1
    rdPos,      \* readLines: number of bytes consumed from r
    rdCtx,      \* readLines: ctx.Err()
    rdHandled,  \* readLines: the lines the handler has been called with
    rdPc,       \* readLines: loop (at the select), read (in ReadString), or returned
    rdErr,      \* readLines: the error it returned
    rdCancel,   \* observer: where readLines was, and how many lines the handler had
                \* got, when the context was canceled
    dcOutput,   \* event decoder: the accumulated output text
    dcSignal,   \* event decoder: the detected signal
    dcCount,    \* event decoder: number of records decoded in this invocation
    dcLast,     \* event decoder: the record decoded last
    dcErr,      \* event decoder: the error that ended the decoding of the stream
    lgExists,   \* progress log: the file exists
    lgFile,     \* progress log: the content of the file
    lgHolder,   \* progress log: the run that holds the lock of the file, or "none"
    lgRun,      \* progress log: per run, idle, open, failed, closed or crashed
    lgErr,      \* progress log: per run, the error of its latest NewLogger
    lgWrites,   \* progress log: per run, the entries written in its session
    lgOpens,    \* progress log: number of NewLogger calls so far
    lgEnded,    \* progress log: how the latest session ended: none, closed or crashed
    exCtx,      \* executor: ctx.Err() of the context Run was called with
    exPc,       \* executor: idle, running (Run is in flight) or returned
    exProcs,    \* executor: the live processes of the subprocess's process group
    exKilled,   \* executor: the process group has been killed
    exOut,      \* executor: number of output chunks drained
    exErr       \* executor: Result.Error, once Run has returned

\* buildContinuePrompt applied on its own
textVars == <<contInput, contPrompt>>

\* readLines
readerVars == <<rdStream, rdFailAt, rdPos, rdCtx, rdHandled, rdPc, rdErr, rdCancel>>

\* the event decoder of one invocation
decoderVars == <<dcOutput, dcSignal, dcCount, dcLast, dcErr>>

\* the progress log of one session identity, and the runs that use it
progressVars == <<lgExists, lgFile, lgHolder, lgRun, lgErr, lgWrites, lgOpens, lgEnded>>

\* one invocation of an executor and its subprocess
invocationVars == <<exCtx, exPc, exProcs, exKilled, exOut, exErr>>

\* the variables of the components other than the runner
restVars == <<textVars, readerVars, decoderVars, progressVars, invocationVars>>

vars == <<cfg, ctxErr, pc, i, lastOutput, prompt, findings, pass, rets, err,
          logPhase, logPrints, calls, inflight, received, lastResult, analysis, okAt,
          dirty, planReads, restVars>>

runnerVars == <<pc, i, lastOutput, prompt, findings, pass, rets, err>>
logVars == <<logPhase, logPrints>>
execVars == <<calls, inflight, received, lastResult, analysis, okAt, dirty>>

\* all the variables of the runner
runnerAll == <<cfg, ctxErr, runnerVars, logVars, execVars, planReads>>

----
\* Bounds of the model

MaxTaskIterations == 3

\* longest prefix, in bytes, put before the padding of a previous output
MaxPrefixLen == 4

\* longest input stream of readLines, in bytes
MaxStreamLen == 4

\* most records the event decoder is given in one invocation
MaxRecords == 3

\* most NewLogger calls on the progress log of one session identity
MaxOpens == 3

\* most entries a run writes to the progress log in one session
MaxWrites == 1

\* most output chunks a subprocess writes in one invocation
MaxChunks == 3

----
\* Errors

Nil == <<>>

ErrorsNew(msg) == <<msg>>

Errorf_Unwrapped(msg, e) == e

\* fmt.Errorf(msg + ": %w", e)
Errorf(msg, e) == <<msg>> \o e

\* errors.Is: target is e or an error e wraps
ErrorsIs(e, target) == \E k \in 1..Len(e) : SubSeq(e, k, Len(e)) = target

\* fmt.Errorf("unknown mode: %s", r.cfg.Mode)
unknownModeError(mode) == ErrorsNew("unknown mode: " \o mode)

\* fmt.Errorf("max iterations (%d) reached without completion", r.cfg.MaxIterations)
maxIterationsError(n) ==
    ErrorsNew("max iterations (" \o ToString(n) \o ") reached without completion")

\* fmt.Errorf("max review iterations (%d) reached", maxReviewIterations)
maxReviewError(n) == ErrorsNew("max review iterations (" \o ToString(n) \o ") reached")

Canceled == ErrorsNew("context canceled")

DeadlineExceeded == ErrorsNew("context deadline exceeded")

----
\* Signals

SignalCompleted == "COMPLETED"

SignalFailed == "FAILED"

SignalReviewDone == "REVIEW_DONE"

SignalCodexDone == "CODEX_DONE"

NoSignal == ""

Signals == {SignalCompleted, SignalFailed, SignalReviewDone, SignalCodexDone}

IsTerminalSignal_Any(signal) == signal # NoSignal

IsTerminalSignal_CompletedOnly(signal) == signal = SignalCompleted

IsTerminalSignal_FailedOnly(signal) == signal = SignalFailed

IsTerminalSignal(signal) == signal = SignalCompleted \/ signal = SignalFailed

IsReviewDone_AnyDone(signal) == signal \in {SignalReviewDone, SignalCodexDone}

IsReviewDone(signal) == signal = SignalReviewDone

IsCodexDone(signal) == signal = SignalCodexDone

----
\* Modes and configuration

ModeFull == "full"

ModeReview == "review"

ModeCodexOnly == "codex-only"

Modes == {ModeFull, ModeReview, ModeCodexOnly, "invalid"}

PlanFiles == {"", "missing.md", "plan.md"}

Files == [f \in {"plan.md"} |-> <<"# Plan", "- [ ] Task 1">>]

\* runFull alone reads PlanFile and MaxIterations: the other modes take two values of each
Configs ==
    [Mode : {ModeFull}, PlanFile : PlanFiles, MaxIterations : (-1)..MaxTaskIterations]
    \cup [Mode : Modes \ {ModeFull}, PlanFile : {"", "plan.md"},
          MaxIterations : {0, MaxTaskIterations}]

----
\* Executor results

Outputs == {<<>>, <<"a", "b">>}

Results == [Output : Outputs, Signal : Signals \cup {NoSignal},
            Error : {Nil, ErrorsNew("exec error")}]

----
\* Prompts

ContinueWindow == 500

LastN_Whole(s, n) == s

LastN(s, n) == IF Len(s) > n THEN SubSeq(s, Len(s) - n + 1, Len(s)) ELSE s

Contains(s, t) == \E k \in 0..(Len(s) - Len(t)) : SubSeq(s, k + 1, k + Len(t)) = t

ReadFile_AlwaysOK(name) == [content |-> <<>>, err |-> Nil]

ReadFile(name) ==
    IF name \in DOMAIN Files
    THEN [content |-> Files[name], err |-> Nil]
    ELSE [content |-> <<>>, err |-> ErrorsNew("no such file")]

buildTaskPrompt(planFile, iteration) ==
    LET f == ReadFile(planFile) IN
    IF f.err # Nil
    THEN [prompt |-> <<>>, err |-> Errorf("read plan file", f.err)]
    ELSE [prompt |-> <<"You are executing a plan autonomously.", "This is iteration",
                       ToString(iteration), "## Plan">>
                     \o f.content
                     \o <<"## Instructions", "If all tasks are complete, output",
                          SignalCompleted, "If you encounter a blocking issue, output",
                          SignalFailed>>,
          err |-> Nil]

buildFirstReviewPrompt ==
    <<"You are reviewing code changes for quality and correctness.", "## Instructions",
      "When review is complete and all issues are fixed, output", SignalReviewDone,
      "If you encounter a blocking issue you cannot fix, output", SignalFailed>>

buildSecondReviewPrompt_NoFindings(codexFindings) ==
    <<"You are reviewing code based on external analysis findings.",
      "## Codex Analysis Findings", "## Instructions",
      "When all valid findings are addressed, output", SignalReviewDone,
      "If you encounter a blocking issue, output", SignalFailed>>

buildSecondReviewPrompt(codexFindings) ==
    <<"You are reviewing code based on external analysis findings.",
      "## Codex Analysis Findings">>
    \o codexFindings
    \o <<"## Instructions", "When all valid findings are addressed, output",
         SignalReviewDone, "If you encounter a blocking issue, output", SignalFailed>>

buildCodexPrompt ==
    <<"Analyze the current git diff for code quality issues.", "Output",
      SignalCodexDone, "when analysis is complete.">>

buildContinuePrompt_NoOutput(previousOutput) ==
    <<"Continue from where you left off.", "## Previous Output (last 500 chars)",
      "Continue executing tasks. Remember to output", SignalCompleted,
      "when done or", SignalFailed, "if blocked.">>

buildContinuePrompt(previousOutput) ==
    <<"Continue from where you left off.", "## Previous Output (last 500 chars)">>
    \o LastN(previousOutput, ContinueWindow)
    \o <<"Continue executing tasks. Remember to output", SignalCompleted,
         "when done or", SignalFailed, "if blocked.">>

----
\* Phase calls

PhaseCalls == {"task", "review1", "codex", "review2"}

PhaseOf(p) == CASE p = "task" -> "Task"
                [] p = "codex" -> "Analysis"
                [] OTHER -> "Review"

maxReviewIterations == 10

\* the label runFull, runReviewOnly and runCodexOnly wrap a review error with
ReviewLabel(mode, p) ==
    IF p = "review1" THEN "first review"
    ELSE IF mode = ModeCodexOnly THEN "review" ELSE "second review"

Count(p) == Cardinality({k \in 1..Len(calls) : calls[k].phase = p})

----
\* The executors as the runner sees them: Run is called, and later returns a Result

SuccessOf(p, result) ==
    /\ result.Error = Nil
    /\ CASE p = "task" -> result.Signal = SignalCompleted
         [] p = "codex" -> TRUE
         [] OTHER -> result.Signal = SignalReviewDone

TerminalOf(p, result) ==
    \/ result.Error # Nil
    \/ CASE p = "task" -> result.Signal \in {SignalCompleted, SignalFailed}
         [] p = "codex" -> TRUE
         [] OTHER -> result.Signal \in {SignalReviewDone, SignalFailed}

\* the executor each phase call invokes: r.claude or r.codex
executorFor_Claude(p) == "claude"

executorFor(p) == IF p = "codex" THEN "codex" ELSE "claude"

ExecutorRun(exec, p, text) ==
    /\ calls' = Append(calls, [exec |-> exec, phase |-> p])
    /\ inflight' = inflight + 1
    /\ received' = text
    /\ UNCHANGED <<lastResult, analysis, okAt, dirty>>

ExecutorReturn(p, result) ==
    /\ inflight' = inflight - 1
    /\ lastResult' = [phase |-> p, Output |-> result.Output, Signal |-> result.Signal,
                      Error |-> result.Error]
    /\ analysis' = IF p = "codex" THEN [Output |-> result.Output, Error |-> result.Error]
                   ELSE analysis
    /\ okAt' = IF SuccessOf(p, result) /\ ~dirty[p] /\ okAt[p] = 0
               THEN [okAt EXCEPT ![p] = Count(p)] ELSE okAt
    /\ dirty' = IF TerminalOf(p, result) THEN [dirty EXCEPT ![p] = TRUE] ELSE dirty
    /\ UNCHANGED <<calls, received>>

----
\* Logger

SetPhase_Keep(phase, prints) ==
    /\ logPrints' = logPrints + prints
    /\ UNCHANGED logPhase

SetPhase(phase, prints) ==
    /\ logPhase' = phase
    /\ logPrints' = logPrints + prints

LogPrint(prints) ==
    /\ logPrints' = logPrints + prints
    /\ UNCHANGED logPhase

----
\* a Runner that NewWithExecutors has built and Run has not yet been called on
RunnerStart ==
    /\ ctxErr = Nil
    /\ pc = "Run"
    /\ i = 0
    /\ lastOutput = <<>>
    /\ prompt = <<>>
    /\ findings = <<>>
    /\ pass = "none"
    /\ rets = [p \in PhaseCalls |-> "idle"]
    /\ err = Nil
    /\ logPhase = "none"
    /\ logPrints = 0
    /\ calls = <<>>
    /\ inflight = 0
    /\ received = <<>>
    /\ lastResult = [phase |-> "none", Output |-> <<>>, Signal |-> NoSignal, Error |-> Nil]
    /\ analysis = [Output |-> <<>>, Error |-> Nil]
    /\ okAt = [p \in PhaseCalls |-> 0]
    /\ dirty = [p \in PhaseCalls |-> FALSE]
    /\ planReads = 0

\* buildContinuePrompt is not being applied
TextIdle ==
    /\ contInput = <<>>
    /\ contPrompt = <<>>

\* readLines is not running
ReaderIdle ==
    /\ rdStream = <<>>
    /\ rdFailAt = -1
    /\ rdPos = 0
    /\ rdCtx = <<>>
    /\ rdHandled = <<>>
    /\ rdPc = "idle"
    /\ rdErr = <<>>
    /\ rdCancel = [pc |-> "none", handled |-> 0]

\* the state of the event decoder when an invocation starts
DecoderStart ==
    /\ dcOutput = <<>>
    /\ dcSignal = NoSignal
    /\ dcCount = 0
    /\ dcLast = [kind |-> "none", text |-> <<>>]
    /\ dcErr = <<>>

Runs == {"run1", "run2"}

\* no run has opened the progress log
ProgressStart ==
    /\ lgFile = <<>>
    /\ lgHolder = "none"
    /\ lgRun = [r \in Runs |-> "idle"]
    /\ lgErr = [r \in Runs |-> <<>>]
    /\ lgWrites = [r \in Runs |-> 0]
    /\ lgOpens = 0
    /\ lgEnded = "none"

ProgressIdle ==
    /\ lgExists = FALSE
    /\ ProgressStart

\* the executor before Run is called
InvocationStart ==
    /\ exCtx = <<>>
    /\ exPc = "idle"
    /\ exProcs = {}
    /\ exKilled = FALSE
    /\ exOut = 0
    /\ exErr = <<>>

Init ==
    /\ cfg \in Configs
    /\ RunnerStart
    /\ TextIdle
    /\ ReaderIdle
    /\ DecoderStart
    /\ ProgressIdle
    /\ InvocationStart

----
\* Conditions the phase loops test

\* result.Error != nil
hasError_UnlessSignal(result) == result.Error # Nil /\ result.Signal = NoSignal

hasError(result) == result.Error # Nil

\* case <-ctx.Done()
ctxDone_Never == FALSE

ctxDone == ctxErr # Nil

\* i <= r.cfg.MaxIterations
taskLoopCond_Less(k) == k < cfg.MaxIterations

taskLoopCond_OneMore(k) == k <= cfg.MaxIterations + 1

taskLoopCond(k) == k <= cfg.MaxIterations

\* i <= maxReviewIterations
reviewLoopCond_TaskCap(k) == k <= cfg.MaxIterations

reviewLoopCond(k) == k <= maxReviewIterations

----
\* Returns of the phase calls and of Run

\* Run returns e; the phase call p, if one is running, returned an error; the
\* locals of the phase loop go out of scope
Return(p, e) ==
    /\ pc' = "done"
    /\ err' = e
    /\ rets' = IF p \in PhaseCalls THEN [rets EXCEPT ![p] = "err"] ELSE rets
    /\ i' = 0
    /\ lastOutput' = <<>>
    /\ prompt' = <<>>
    /\ UNCHANGED <<findings, pass>>

\* runClaudeReview(ctx, text) is entered as phase call p
EnterReview(p, text, done) ==
    /\ pc' = "reviewLoop"
    /\ pass' = p
    /\ prompt' = text
    /\ i' = 1
    /\ lastOutput' = <<>>
    /\ rets' = [rets EXCEPT ![done] = "nil", ![p] = "active"]
    /\ UNCHANGED err

\* runCodexPhase(ctx) is entered
EnterCodex(done) ==
    /\ pc' = "codex"
    /\ pass' = "codex"
    /\ prompt' = <<>>
    /\ i' = 0
    /\ rets' = [rets EXCEPT ![done] = "nil", !["codex"] = "active"]
    /\ UNCHANGED <<lastOutput, findings, err>>

----
\* Run: the switch on the mode, and the head of runFull, runReviewOnly, runCodexOnly

\* switch r.cfg.Mode: the function Run dispatches to
runMode_DefaultReview(mode) ==
    CASE mode = ModeFull -> "runFull"
      [] mode = ModeCodexOnly -> "runCodexOnly"
      [] OTHER -> "runReviewOnly"

runMode(mode) ==
    CASE mode = ModeFull -> "runFull"
      [] mode = ModeReview -> "runReviewOnly"
      [] mode = ModeCodexOnly -> "runCodexOnly"
      [] OTHER -> "default"

Run ==
    /\ pc = "Run"
    /\ CASE runMode(cfg.Mode) = "runFull" ->
              IF cfg.PlanFile = ""
              THEN /\ Return("none", ErrorsNew("plan file required for full mode"))
                   /\ UNCHANGED logVars
              ELSE /\ SetPhase("Task", 1)
                   /\ pc' = "taskLoop"
                   /\ pass' = "task"
                   /\ i' = 1
                   /\ rets' = [rets EXCEPT !["task"] = "active"]
                   /\ UNCHANGED <<lastOutput, prompt, findings, err>>
         [] runMode(cfg.Mode) = "runReviewOnly" ->
              /\ SetPhase("Review", 1)
              /\ EnterReview("review1", buildFirstReviewPrompt, "review1")
              /\ UNCHANGED findings
         [] runMode(cfg.Mode) = "runCodexOnly" ->
              /\ SetPhase("Analysis", 1)
              /\ EnterCodex("codex")
         [] OTHER ->
              /\ Return("none", unknownModeError(cfg.Mode))
              /\ UNCHANGED logVars
    /\ UNCHANGED <<cfg, ctxErr, execVars, planReads, restVars>>

----
\* runTaskPhase

\* one pass of the loop head, up to the call of r.claude.Run
runTaskPhaseIter ==
    /\ pc = "taskLoop"
    /\ IF ~taskLoopCond(i)
       THEN /\ Return("task", Errorf("task phase", maxIterationsError(cfg.MaxIterations)))
            /\ UNCHANGED <<logVars, execVars, planReads>>
       ELSE IF ctxDone
       THEN /\ Return("task", Errorf("task phase", Errorf("task phase", ctxErr)))
            /\ UNCHANGED <<logVars, execVars, planReads>>
       ELSE LET built == IF i = 1 THEN buildTaskPrompt(cfg.PlanFile, i)
                         ELSE [prompt |-> buildContinuePrompt(lastOutput), err |-> Nil] IN
            /\ LogPrint(1)
            /\ planReads' = IF i = 1 THEN planReads + 1 ELSE planReads
            /\ IF built.err # Nil
               THEN /\ Return("task", Errorf("task phase", built.err))
                    /\ UNCHANGED execVars
               ELSE /\ ExecutorRun(executorFor("task"), "task", built.prompt)
                    /\ pc' = "taskWait"
                    /\ UNCHANGED <<i, lastOutput, prompt, findings, pass, rets, err>>
    /\ UNCHANGED <<cfg, ctxErr, restVars>>

\* r.claude.Run returns result; the rest of the loop body and, on success, runFull
\* up to its call of runClaudeReview
runTaskPhaseResult ==
    /\ pc = "taskWait"
    /\ \E result \in Results :
         /\ ExecutorReturn("task", result)
         /\ IF hasError(result)
            THEN /\ Return("task", Errorf("task phase",
                             Errorf("claude execution", result.Error)))
                 /\ UNCHANGED logVars
            ELSE IF IsTerminalSignal(result.Signal)
            THEN IF result.Signal = SignalFailed
                 THEN /\ Return("task", Errorf("task phase",
                                  ErrorsNew("task execution failed (FAILED signal received)")))
                      /\ UNCHANGED logVars
                 ELSE /\ SetPhase("Review", 2)
                      /\ EnterReview("review1", buildFirstReviewPrompt, "task")
                      /\ UNCHANGED findings
            ELSE /\ pc' = "taskLoop"
                 /\ i' = i + 1
                 /\ lastOutput' = result.Output
                 /\ UNCHANGED <<prompt, findings, pass, rets, err, logVars>>
    /\ UNCHANGED <<cfg, ctxErr, planReads, restVars>>

----
\* runClaudeReview

\* what the caller does when runClaudeReview returns nil: runFull and runReviewOnly
\* go on to runCodexPhase after their first review, and every caller returns after
\* the review of the findings
afterReview_Again(p) == "runCodexPhase"

afterReview(p) == IF p = "review1" THEN "runCodexPhase" ELSE "return"

runClaudeReviewIter ==
    /\ pc = "reviewLoop"
    /\ IF ~reviewLoopCond(i)
       THEN /\ Return(pass, Errorf(ReviewLabel(cfg.Mode, pass),
                        maxReviewError(maxReviewIterations)))
            /\ UNCHANGED <<logVars, execVars>>
       ELSE IF ctxDone
       THEN /\ Return(pass, Errorf(ReviewLabel(cfg.Mode, pass),
                        Errorf("review", ctxErr)))
            /\ UNCHANGED <<logVars, execVars>>
       ELSE /\ LogPrint(1)
            /\ ExecutorRun(executorFor(pass), pass, prompt)
            /\ pc' = "reviewWait"
            /\ UNCHANGED <<i, lastOutput, prompt, findings, pass, rets, err>>
    /\ UNCHANGED <<cfg, ctxErr, planReads, restVars>>

\* r.claude.Run returns result; the rest of the loop body and, on success, the
\* caller up to its call of runCodexPhase or its return
runClaudeReviewResult ==
    /\ pc = "reviewWait"
    /\ \E result \in Results :
         /\ ExecutorReturn(pass, result)
         /\ IF hasError(result)
            THEN /\ Return(pass, Errorf(ReviewLabel(cfg.Mode, pass),
                             Errorf("claude execution", result.Error)))
                 /\ UNCHANGED logVars
            ELSE IF result.Signal = SignalFailed
            THEN /\ Return(pass, Errorf(ReviewLabel(cfg.Mode, pass),
                             ErrorsNew("review failed (FAILED signal received)")))
                 /\ UNCHANGED logVars
            ELSE IF IsReviewDone(result.Signal)
            THEN IF afterReview(pass) = "runCodexPhase"
                 THEN /\ SetPhase("Analysis", 2)
                      /\ EnterCodex(pass)
                 ELSE /\ LogPrint(2)
                      /\ pc' = "done"
                      /\ rets' = [rets EXCEPT ![pass] = "nil"]
                      /\ i' = 0
                      /\ prompt' = <<>>
                      /\ UNCHANGED <<lastOutput, findings, pass, err>>
            ELSE /\ pc' = "reviewLoop"
                 /\ i' = i + 1
                 /\ prompt' = buildContinuePrompt(result.Output)
                 /\ UNCHANGED <<lastOutput, findings, pass, rets, err, logVars>>
    /\ UNCHANGED <<cfg, ctxErr, planReads, restVars>>

----
\* runCodexPhase

\* the call of r.codex.Run
runCodexPhaseCall ==
    /\ pc = "codex"
    /\ ExecutorRun(executorFor("codex"), "codex", buildCodexPrompt)
    /\ pc' = "codexWait"
    /\ UNCHANGED <<cfg, ctxErr, i, lastOutput, prompt, findings, pass, rets, err, logVars,
                   planReads, restVars>>

\* the findings runCodexPhase returns from an error-free result
codexFindings_IfDone(result) ==
    IF IsCodexDone(result.Signal) THEN result.Output ELSE <<>>

codexFindings(result) == result.Output

\* whether the caller of runCodexPhase runs the follow-up review
HasFindings_Always(output) == TRUE

HasFindings_Never(output) == FALSE

HasFindings(output) == output # <<>>

\* r.codex.Run returns result; the rest of runCodexPhase and the caller up to its
\* call of runClaudeReview or its return
runCodexPhaseReturns(result) ==
    /\ pc = "codexWait"
    /\ ExecutorReturn("codex", result)
    /\ IF hasError(result)
       THEN /\ Return("codex", Errorf("codex phase",
                        Errorf("codex execution", result.Error)))
            /\ UNCHANGED logVars
       ELSE /\ findings' = codexFindings(result)
            /\ IF HasFindings(codexFindings(result))
               THEN /\ SetPhase("Review", 2)
                    /\ EnterReview("review2",
                                   buildSecondReviewPrompt(codexFindings(result)),
                                   "codex")
               ELSE /\ LogPrint(2)
                    /\ pc' = "done"
                    /\ rets' = [rets EXCEPT !["codex"] = "nil"]
                    /\ UNCHANGED <<i, lastOutput, prompt, pass, err>>
    /\ UNCHANGED <<cfg, ctxErr, planReads, restVars>>

runCodexPhaseResult == \E result \in Results : runCodexPhaseReturns(result)

----
\* The context: canceled by its owner, or its deadline passes

Cancel ==
    /\ pc # "done"
    /\ ctxErr = Nil
    /\ ctxErr' = Canceled
    /\ UNCHANGED <<cfg, runnerVars, logVars, execVars, planReads, restVars>>

Timeout ==
    /\ pc # "done"
    /\ ctxErr = Nil
    /\ ctxErr' = DeadlineExceeded
    /\ UNCHANGED <<cfg, runnerVars, logVars, execVars, planReads, restVars>>

----
Next ==
    \/ Run
    \/ runTaskPhaseIter
    \/ runTaskPhaseResult
    \/ runClaudeReviewIter
    \/ runClaudeReviewResult
    \/ runCodexPhaseCall
    \/ runCodexPhaseResult
    \/ Cancel
    \/ Timeout

Spec == Init /\ [][Next]_vars

\* Run is one thread of control that keeps running, and every executor invocation
\* returns: no step of the runner that is ready stays undone for ever.  The owner
\* of the context is free to cancel or not.
FairSpec ==
    /\ Spec
    /\ WF_vars(Run)
    /\ WF_vars(runTaskPhaseIter)
    /\ WF_vars(runTaskPhaseResult)
    /\ WF_vars(runClaudeReviewIter)
    /\ WF_vars(runClaudeReviewResult)
    /\ WF_vars(runCodexPhaseCall)
    /\ WF_vars(runCodexPhaseResult)

----
TypeOK ==
    /\ cfg \in Configs
    /\ inflight \in 0..1

----
\* buildContinuePrompt on previous outputs of every length around its window.  A
\* previous output is a Go string: a sequence of bytes, here the UTF-8 encoding of a
\* text of the characters z (one byte, "z") and e-acute (two bytes, "C3" "A9").

RECURSIVE Utf8Strings(_)
\* the encodings that are n bytes long
Utf8Strings(n) ==
    IF n = 0 THEN {<<>>}
    ELSE {s \o <<"z">> : s \in Utf8Strings(n - 1)}
         \cup (IF n >= 2 THEN {s \o <<"C3", "A9">> : s \in Utf8Strings(n - 2)} ELSE {})

Zs(m) == [k \in 1..m |-> "z"]

PadLens == 0..2 \cup (ContinueWindow - MaxPrefixLen)..(ContinueWindow + 1)

PreviousOutputs ==
    {pre \o Zs(m) : pre \in UNION {Utf8Strings(n) : n \in 0..MaxPrefixLen}, m \in PadLens}

\* no run is in progress
RunnerIdle ==
    /\ cfg = [Mode |-> ModeReview, PlanFile |-> "", MaxIterations |-> 0]
    /\ RunnerStart

TextInit ==
    /\ contInput \in PreviousOutputs
    /\ contPrompt = <<>>
    /\ RunnerIdle
    /\ ReaderIdle
    /\ DecoderStart
    /\ ProgressIdle
    /\ InvocationStart

BuildContinue ==
    /\ contPrompt = <<>>
    /\ contPrompt' = buildContinuePrompt(contInput)
    /\ UNCHANGED <<contInput, runnerAll, readerVars, decoderVars, progressVars,
                   invocationVars>>

TextNext == BuildContinue

TextSpec == TextInit /\ [][TextNext]_vars

----
\* readLines(ctx, r, handler).  The stream is a sequence of bytes: "x" is a byte of
\* text, "\r" and "\n" are the carriage return and the line feed.

RECURSIVE SeqsOf(_, _)
\* the sequences of n elements of S
SeqsOf(S, n) ==
    IF n = 0 THEN {<<>>} ELSE {s \o <<b>> : s \in SeqsOf(S, n - 1), b \in S}

Bytes == {"x", "\r", "\n"}

Streams == UNION {SeqsOf(Bytes, n) : n \in 0..MaxStreamLen}

EOF == ErrorsNew("EOF")

ErrRead == ErrorsNew("read error")

\* bufio.Reader.ReadString(delim) on the bytes of s after the first pos: the bytes up
\* to and including the first delim; if the underlying reader ends or fails (at
\* failAt) before a delim, the bytes before that and the error
ReadString(s, pos, failAt, delim) ==
    LET limit == IF failAt >= 0 THEN failAt ELSE Len(s)
        hits == {j \in (pos + 1)..limit : s[j] = delim}
    IN IF hits # {}
       THEN LET j == CHOOSE h \in hits : \A g \in hits : h <= g
            IN [line |-> SubSeq(s, pos + 1, j), err |-> Nil]
       ELSE [line |-> SubSeq(s, pos + 1, limit),
             err |-> IF failAt >= 0 THEN ErrRead ELSE EOF]

RECURSIVE TrimRight(_, _)
\* strings.TrimRight(s, cutset): s without its trailing bytes that are in cutset
TrimRight(s, cutset) ==
    IF s # <<>> /\ s[Len(s)] \in cutset
    THEN TrimRight(SubSeq(s, 1, Len(s) - 1), cutset)
    ELSE s

ReaderInit ==
    /\ rdStream \in Streams
    /\ rdFailAt \in (-1)..Len(rdStream)
    /\ rdPos = 0
    /\ rdCtx = Nil
    /\ rdHandled = <<>>
    /\ rdPc = "loop"
    /\ rdErr = Nil
    /\ rdCancel = [pc |-> "none", handled |-> 0]
    /\ RunnerIdle
    /\ TextIdle
    /\ DecoderStart
    /\ ProgressIdle
    /\ InvocationStart

\* case <-ctx.Done()
readerCtxDone_Never == FALSE

readerCtxDone == rdCtx # Nil

\* what readLines returns when ReadString returned err
readLinesReturn_Nil(e) == Nil

readLinesReturn(e) == IF e = EOF THEN Nil ELSE e

\* the head of a pass of the loop of readLines: the select on ctx.Done(), and the
\* call of reader.ReadString
readLinesSelect ==
    /\ rdPc = "loop"
    /\ IF readerCtxDone
       THEN /\ rdPc' = "returned"
            /\ rdErr' = rdCtx
       ELSE /\ rdPc' = "read"
            /\ UNCHANGED rdErr
    /\ UNCHANGED <<rdStream, rdFailAt, rdPos, rdCtx, rdHandled, rdCancel, runnerAll,
                   textVars, decoderVars, progressVars, invocationVars>>

\* reader.ReadString returns: the rest of the pass
readLinesRead ==
    /\ rdPc = "read"
    /\ LET read == ReadString(rdStream, rdPos, rdFailAt, "\n") IN
         /\ rdPos' = rdPos + Len(read.line)
         /\ rdHandled' = IF Len(read.line) > 0
                         THEN Append(rdHandled, TrimRight(read.line, {"\r", "\n"}))
                         ELSE rdHandled
         /\ IF read.err # Nil
            THEN /\ rdPc' = "returned"
                 /\ rdErr' = readLinesReturn(read.err)
            ELSE /\ rdPc' = "loop"
                 /\ UNCHANGED rdErr
    /\ UNCHANGED <<rdStream, rdFailAt, rdCtx, rdCancel, runnerAll, textVars, decoderVars,
                   progressVars, invocationVars>>

\* the context of readLines is canceled, at the select or during a read
ReaderCancel ==
    /\ rdPc \in {"loop", "read"}
    /\ rdCtx = Nil
    /\ rdCtx' = Canceled
    /\ rdCancel' = [pc |-> rdPc, handled |-> Len(rdHandled)]
    /\ UNCHANGED <<rdStream, rdFailAt, rdPos, rdHandled, rdPc, rdErr, runnerAll, textVars,
                   decoderVars, progressVars, invocationVars>>

ReaderNext ==
    \/ readLinesSelect
    \/ readLinesRead
    \/ ReaderCancel

ReaderSpec == ReaderInit /\ [][ReaderNext]_vars

----
\* The event decoder: it folds the records of one invocation, one per line of the
\* agent's output, into the accumulated output and at most one signal.

\* the signal tokens, in the order they are tested
Vocabulary == <<SignalCompleted, SignalFailed, SignalReviewDone, SignalCodexDone>>

\* texts of a record: words ("t") and signal tokens
Chunks == {<<>>, <<"t">>, <<"t", SignalCompleted>>, <<SignalFailed, "t">>,
           <<SignalReviewDone>>, <<SignalCodexDone>>, <<SignalFailed, SignalCompleted>>}

RecordKinds == {"delta", "message", "result", "other", "opaque"}

Records == [kind : RecordKinds, text : Chunks]

\* the first token of the vocabulary the text contains, or no signal
detectSignal(text) ==
    LET found == {k \in 1..Len(Vocabulary) : Contains(text, <<Vocabulary[k]>>)} IN
    IF found = {} THEN NoSignal
    ELSE Vocabulary[CHOOSE k \in found : \A j \in found : k <= j]

scanChunk_Overwrite(signal, text) ==
    IF detectSignal(text) # NoSignal THEN detectSignal(text) ELSE signal

\* the signal after a chunk is scanned: a signal already detected stays
scanChunk(signal, text) ==
    IF signal # NoSignal THEN signal ELSE detectSignal(text)

\* an end-of-execution record: its result text is appended, and is text in which
\* signals are detected
decodeResult(output, signal, text) ==
    [output |-> output \o text, signal |-> scanChunk(signal, text), err |-> Nil]

decodeOpaque_Abort(output, signal, text) ==
    [output |-> output, signal |-> signal, err |-> ErrorsNew("invalid event")]

\* a line that is not a well-formed event: appended as it is, not scanned
decodeOpaque(output, signal, text) ==
    [output |-> output \o text, signal |-> signal, err |-> Nil]

\* the decoder state after a record
decodeRecord(output, signal, rec) ==
    CASE rec.kind \in {"delta", "message"} ->
           [output |-> output \o rec.text, signal |-> scanChunk(signal, rec.text),
            err |-> Nil]
      [] rec.kind = "result" -> decodeResult(output, signal, rec.text)
      [] rec.kind = "opaque" -> decodeOpaque(output, signal, rec.text)
      [] OTHER -> [output |-> output, signal |-> signal, err |-> Nil]

DecoderInit ==
    /\ DecoderStart
    /\ RunnerIdle
    /\ TextIdle
    /\ ReaderIdle
    /\ ProgressIdle
    /\ InvocationStart

\* the next line of the agent's output is decoded
Decode ==
    /\ dcCount < MaxRecords
    /\ dcErr = Nil
    /\ \E rec \in Records :
         LET d == decodeRecord(dcOutput, dcSignal, rec) IN
         /\ dcOutput' = d.output
         /\ dcSignal' = d.signal
         /\ dcErr' = d.err
         /\ dcLast' = rec
    /\ dcCount' = dcCount + 1
    /\ UNCHANGED <<runnerAll, textVars, readerVars, progressVars, invocationVars>>

DecoderNext == Decode

DecoderSpec == DecoderInit /\ [][DecoderNext]_vars

----
\* The progress log (pkg/progress): NewLogger, the writes of a session, Close, and
\* the end of a run that did not call Close.  The content of the file is a sequence
\* of pieces of text, each of a number of bytes.

MarkerText == "Completed:"

Header == <<"# Ralphex Progress Log">>

RestartSeparator == <<"--- restarted ---">>

\* Completed: 2006-01-02 15:04:05 (elapsed)
Footer == <<MarkerText, "2006-01-02 15:04:05 (elapsed)">>

\* what a session writes: a line, a line with the text "Completed:" in it, and a
\* line as long as the window isProgressCompleted reads
Entries == {<<"line">>, <<MarkerText, "line">>, <<"long line">>}

TailWindow == 256

\* the number of bytes of a piece of text
Width(piece) ==
    CASE piece = MarkerText -> 10
      [] piece = "long line" -> TailWindow
      [] OTHER -> 30

RECURSIVE Size(_)
\* fi.Size()
Size(content) == IF content = <<>> THEN 0 ELSE Width(Head(content)) + Size(Tail(content))

\* the pieces that lie whole in the last n bytes of the content
LastBytes(content, n) ==
    LET fits == {k \in 0..Len(content) :
                    Size(SubSeq(content, Len(content) - k + 1, Len(content))) <= n}
        k == CHOOSE j \in fits : \A h \in fits : h <= j
    IN SubSeq(content, Len(content) - k + 1, Len(content))

\* strings.Contains(chunk, "Completed:") on the last 256 bytes of the file
isProgressCompleted(content) == Contains(LastBytes(content, TailWindow), <<MarkerText>>)

ErrLocked == ErrorsNew("progress file is locked by another process")

TryLock_Always(holder) == TRUE

\* the non-blocking exclusive lock is granted unless a live run holds it
TryLock(holder) == holder = "none"

openFile_Truncating(content) == <<>>

\* os.OpenFile with O_APPEND|O_CREATE|O_WRONLY: the content of the file after the
\* open, before the lock is tried
openFile(content) == content

ProgressInit ==
    /\ lgExists \in BOOLEAN
    /\ ProgressStart
    /\ RunnerIdle
    /\ TextIdle
    /\ ReaderIdle
    /\ DecoderStart
    /\ InvocationStart

\* NewLogger by run r: open with O_APPEND|O_CREATE|O_WRONLY, lock, stat, and the
\* header or the restart separator written
NewLogger(r) ==
    /\ lgRun[r] # "open"
    /\ lgOpens < MaxOpens
    /\ lgOpens' = lgOpens + 1
    /\ lgExists' = TRUE
    /\ IF ~TryLock(lgHolder)
       THEN /\ lgRun' = [lgRun EXCEPT ![r] = "failed"]
            /\ lgErr' = [lgErr EXCEPT ![r] = ErrLocked]
            /\ lgFile' = openFile(lgFile)
            /\ UNCHANGED <<lgHolder, lgWrites>>
       ELSE /\ lgHolder' = r
            /\ lgRun' = [lgRun EXCEPT ![r] = "open"]
            /\ lgErr' = [lgErr EXCEPT ![r] = Nil]
            /\ lgWrites' = [lgWrites EXCEPT ![r] = 0]
            /\ lgFile' = IF Size(openFile(lgFile)) = 0 THEN Header
                         ELSE IF isProgressCompleted(openFile(lgFile)) THEN Header
                         ELSE openFile(lgFile) \o RestartSeparator
    /\ UNCHANGED <<lgEnded, runnerAll, textVars, readerVars, decoderVars, invocationVars>>

\* run r writes an entry to the log it has open
Write(r) ==
    /\ lgRun[r] = "open"
    /\ lgWrites[r] < MaxWrites
    /\ \E entry \in Entries : lgFile' = lgFile \o entry
    /\ lgWrites' = [lgWrites EXCEPT ![r] = lgWrites[r] + 1]
    /\ UNCHANGED <<lgExists, lgHolder, lgRun, lgErr, lgOpens, lgEnded, runnerAll, textVars,
                   readerVars, decoderVars, invocationVars>>

\* Close by run r: the footer is written and the lock released
Close(r) ==
    /\ lgRun[r] = "open"
    /\ lgFile' = lgFile \o Footer
    /\ lgHolder' = "none"
    /\ lgRun' = [lgRun EXCEPT ![r] = "closed"]
    /\ lgEnded' = "closed"
    /\ UNCHANGED <<lgExists, lgErr, lgWrites, lgOpens, runnerAll, textVars, readerVars,
                   decoderVars, invocationVars>>

\* run r ends without Close: its lock is released with its process
Crash(r) ==
    /\ lgRun[r] = "open"
    /\ lgHolder' = "none"
    /\ lgRun' = [lgRun EXCEPT ![r] = "crashed"]
    /\ lgEnded' = "crashed"
    /\ UNCHANGED <<lgExists, lgFile, lgErr, lgWrites, lgOpens, runnerAll, textVars,
                   readerVars, decoderVars, invocationVars>>

ProgressNext ==
    \E r \in Runs :
        \/ NewLogger(r)
        \/ Write(r)
        \/ Close(r)
        \/ Crash(r)

ProgressSpec == ProgressInit /\ [][ProgressNext]_vars

----
\* One invocation of an executor: Run starts the agent as a subprocess in a process
\* group of its own, drains its output, waits for it to exit and returns the Result;
\* when the context is canceled it kills the process group.

Agent == "agent"

\* the processes the agent can start, which stay in its process group
Descendants == {"child1", "child2"}

killGroup_LeaderOnly(procs) == procs \ {Agent}

\* the processes of the group that are left after the group is killed
killGroup(procs) == {}

\* what a step of the invocation leaves alone
invocationFrame == <<runnerAll, textVars, readerVars, decoderVars, progressVars>>

InvocationInit ==
    /\ InvocationStart
    /\ RunnerIdle
    /\ TextIdle
    /\ ReaderIdle
    /\ DecoderStart
    /\ ProgressIdle

\* Executor.Run is called and starts the agent
InvocationRun ==
    /\ exPc = "idle"
    /\ exPc' = "running"
    /\ exProcs' = {Agent}
    /\ UNCHANGED <<exCtx, exKilled, exOut, exErr, invocationFrame>>

\* the agent starts a process
AgentSpawn ==
    /\ exPc = "running"
    /\ Agent \in exProcs
    /\ \E d \in Descendants \ exProcs : exProcs' = exProcs \cup {d}
    /\ UNCHANGED <<exCtx, exPc, exKilled, exOut, exErr, invocationFrame>>

\* the agent writes a chunk of output, which Run drains
AgentOutput ==
    /\ exPc = "running"
    /\ Agent \in exProcs
    /\ exOut < MaxChunks
    /\ exOut' = exOut + 1
    /\ UNCHANGED <<exCtx, exPc, exProcs, exKilled, exErr, invocationFrame>>

\* a process of the group exits by itself
ProcessExit ==
    /\ \E q \in exProcs : exProcs' = exProcs \ {q}
    /\ UNCHANGED <<exCtx, exPc, exKilled, exOut, exErr, invocationFrame>>

\* the context is canceled, or its deadline passes, while Run is in flight
InvocationCancel ==
    /\ exPc = "running"
    /\ exCtx = Nil
    /\ exCtx' \in {Canceled, DeadlineExceeded}
    /\ UNCHANGED <<exPc, exProcs, exKilled, exOut, exErr, invocationFrame>>

\* Run sees the context done and kills the process group
InvocationKill ==
    /\ exPc = "running"
    /\ exCtx # Nil
    /\ ~exKilled
    /\ exProcs' = killGroup(exProcs)
    /\ exKilled' = TRUE
    /\ UNCHANGED <<exCtx, exPc, exOut, exErr, invocationFrame>>

\* the agent has exited: Run returns the Result
InvocationReturn ==
    /\ exPc = "running"
    /\ Agent \notin exProcs
    /\ exCtx # Nil => exKilled
    /\ exPc' = "returned"
    /\ exErr' = IF exCtx # Nil THEN Errorf("context error", exCtx) ELSE Nil
    /\ UNCHANGED <<exCtx, exProcs, exKilled, exOut, invocationFrame>>

InvocationNext ==
    \/ InvocationRun
    \/ AgentSpawn
    \/ AgentOutput
    \/ ProcessExit
    \/ InvocationCancel
    \/ InvocationKill
    \/ InvocationReturn

InvocationSpec == InvocationInit /\ [][InvocationNext]_vars

\* Run is a thread that keeps running: it does not stop before the kill or the
\* return it is ready to do
InvocationFairSpec ==
    InvocationSpec /\ WF_vars(InvocationKill) /\ WF_vars(InvocationReturn)

----
\* Vocabulary of the properties

\* the phase calls of each mode, in the order the mode runs them
Pipeline(mode) ==
    CASE mode = ModeFull -> <<"task", "review1", "codex", "review2">>
      [] mode = ModeReview -> <<"review1", "codex", "review2">>
      [] mode = ModeCodexOnly -> <<"codex", "review2">>
      [] OTHER -> <<>>

Position(mode, p) == CHOOSE k \in 1..Len(Pipeline(mode)) : Pipeline(mode)[k] = p

ReviewCalls == {"review1", "review2"}

PlanReadable == cfg.PlanFile \in DOMAIN Files

\* the last message of an error chain: the error at the bottom of the wrapping
Cause(e) == IF e = Nil THEN "" ELSE e[Len(e)]

MaxIterationsMsg == maxIterationsError(cfg.MaxIterations)[1]

MaxReviewMsg == maxReviewError(maxReviewIterations)[1]

TaskFailedMsg == "task execution failed (FAILED signal received)"

ReviewFailedMsg == "review failed (FAILED signal received)"

----
\* C1: the executor invocations of a run follow the phase order of its mode (Full:
\* Task, Review, Analysis, Review; ReviewOnly: Review, Analysis, Review;
\* AnalysisOnly: Analysis, Review); a phase is invoked only after the phase before
\* it in the pipeline has been invoked and has returned success on a result that
\* met its success condition; and at most one invocation is in progress.
C1_PhaseOrder ==
    /\ inflight \in {0, 1}
    /\ \A k \in 1..Len(calls) :
         LET p == calls[k].phase
             pl == Pipeline(cfg.Mode) IN
         /\ \E n \in 1..Len(pl) : pl[n] = p
         /\ k > 1 => Position(cfg.Mode, calls[k - 1].phase) <= Position(cfg.Mode, p)
         /\ Position(cfg.Mode, p) > 1 =>
              LET q == pl[Position(cfg.Mode, p) - 1] IN
              /\ rets[q] = "nil"
              /\ okAt[q] # 0
              /\ \E j \in 1..(k - 1) : calls[j].phase = q
    /\ Len(calls) > 0 => calls[1].phase = Pipeline(cfg.Mode)[1]

C1_Witness ==
    /\ cfg.Mode = ModeFull
    /\ pc = "done"
    /\ err = Nil
    /\ Count("task") = 2
    /\ Count("review1") = 2
    /\ Count("codex") = 1
    /\ Count("review2") = 2

----
\* C2: in the Task phase, when the k-th invocation is the first to return COMPLETED
\* with no Error, every earlier result having had no Error and neither COMPLETED
\* nor FAILED, the phase has succeeded with exactly k invocations, all of the
\* primary executor, and k <= MaxIterations.
C2_TaskCompletes ==
    okAt["task"] # 0 =>
        /\ rets["task"] = "nil"
        /\ Count("task") = okAt["task"]
        /\ okAt["task"] <= cfg.MaxIterations
        /\ \A k \in 1..Len(calls) : calls[k].phase = "task" => calls[k].exec = "claude"

C2_Witness ==
    /\ okAt["task"] = 2
    /\ pc = "reviewLoop"
    /\ inflight = 0

----
\* C3: with Task cap N = MaxIterations >= 0, a Task phase that ends without any
\* result carrying an Error, COMPLETED or FAILED makes at most N invocations and
\* no Review or Analysis invocation follows; it fails with the max-iterations
\* error exactly when it made N invocations, which it does whenever the context
\* stays live and the plan file is readable; it makes fewer only when the run is
\* cut short by its context (canceled or timed out) or by an unreadable plan.
C3_TaskMaxIterations ==
    (cfg.Mode = ModeFull /\ cfg.MaxIterations >= 0 /\ rets["task"] = "err" /\ ~dirty["task"]) =>
        /\ pc = "done"
        /\ err # Nil
        /\ Count("task") <= cfg.MaxIterations
        /\ Len(calls) = Count("task")
        /\ inflight = 0
        /\ (Cause(err) = MaxIterationsMsg) <=> (Count("task") = cfg.MaxIterations)
        /\ (ctxErr = Nil /\ PlanReadable) => Count("task") = cfg.MaxIterations
        /\ Count("task") < cfg.MaxIterations =>
              \/ ctxErr # Nil /\ ErrorsIs(err, ctxErr)
              \/ ~PlanReadable /\ Cause(err) = "no such file"

C3_Witness ==
    /\ cfg.Mode = ModeFull
    /\ cfg.MaxIterations = 3
    /\ ctxErr = Nil
    /\ pc = "done"
    /\ Cause(err) = MaxIterationsMsg
    /\ Count("task") = 3

----
\* C4: in every mode, once the Analysis invocation has returned empty output and
\* no Error, Run has returned success and no Review invocation follows Analysis.
C4_NoFindingsSkipsReview ==
    (okAt["codex"] # 0 /\ analysis.Error = Nil /\ analysis.Output = <<>>) =>
        /\ pc = "done"
        /\ err = Nil
        /\ Count("review2") = 0
        /\ calls[Len(calls)].phase = "codex"
        /\ inflight = 0

C4_Witness ==
    /\ cfg.Mode = ModeFull
    /\ okAt["codex"] # 0
    /\ analysis.Output = <<>>
    /\ lastResult.phase = "codex"
    /\ lastResult.Signal = SignalCodexDone
    /\ lastResult.Error = Nil
    /\ pc = "done"

----
\* C5 as stated: when the Analysis invocation returned non-empty output and no
\* Error, a run that ends in success with its context live has made exactly one
\* follow-up Review invocation.
C5_ExactlyOneFollowUp ==
    (okAt["codex"] # 0 /\ analysis.Output # <<>> /\ ctxErr = Nil /\ pc = "done" /\ err = Nil) =>
        Count("review2") = 1

\* C5, amended: when the Analysis invocation returned non-empty output and no
\* Error, the follow-up Review phase is entered; it makes one invocation per
\* iteration, at most maxReviewIterations, exactly one if the first returns
\* REVIEW_DONE, FAILED or an Error, and none only if the context is already done
\* when the phase starts; the prompt of its first invocation contains the
\* findings text verbatim.
C5_FollowUpReview ==
    (okAt["codex"] # 0 /\ analysis.Output # <<>>) =>
        /\ rets["review2"] # "idle"
        /\ findings = analysis.Output
        /\ Count("review2") <= maxReviewIterations
        /\ Count("review2") = 1 =>
              /\ calls[Len(calls)] = [exec |-> "claude", phase |-> "review2"]
              /\ Contains(received, analysis.Output)
        /\ (Count("review2") >= 1 /\ lastResult.phase = "review2" /\ dirty["review2"]) =>
              /\ pc = "done"
              /\ okAt["review2"] \in {0, Count("review2")}
        /\ (pc = "done" /\ Count("review2") = 0) => (ctxErr # Nil /\ ErrorsIs(err, ctxErr))
        /\ (pc # "done" /\ Count("review2") = 0) => (pc = "reviewLoop" /\ pass = "review2")

C5_Witness ==
    /\ okAt["codex"] # 0
    /\ analysis.Output = <<"a", "b">>
    /\ Count("review2") = 1
    /\ inflight = 1
    /\ Contains(received, <<"a", "b">>)

----
\* C6: in every phase, once an invocation has returned a Result with an Error,
\* whatever its Signal and Output, Run has returned a failure that wraps that
\* error and no further invocation is made.
C6_ErrorIsFatal ==
    lastResult.Error # Nil =>
        /\ pc = "done"
        /\ err # Nil
        /\ ErrorsIs(err, lastResult.Error)
        /\ inflight = 0
        /\ calls[Len(calls)].phase = lastResult.phase
        /\ rets[lastResult.phase] = "err"

C6_Witness ==
    /\ lastResult.Error # Nil
    /\ lastResult.Signal = SignalReviewDone
    /\ lastResult.phase = "review1"
    /\ pc = "done"

----
\* C7: once a Task or Review invocation has returned FAILED with no Error, the
\* phase has failed with its FAILED-signal error, Run has returned failure, and
\* no further invocation of that phase or of a later phase is made.
C7_FailedSignalIsFatal ==
    (lastResult.Error = Nil /\ lastResult.Signal = SignalFailed
        /\ lastResult.phase \in {"task"} \cup ReviewCalls) =>
        /\ pc = "done"
        /\ rets[lastResult.phase] = "err"
        /\ Cause(err) = (IF lastResult.phase = "task" THEN TaskFailedMsg ELSE ReviewFailedMsg)
        /\ inflight = 0
        /\ calls[Len(calls)].phase = lastResult.phase

C7_Witness ==
    /\ lastResult.Error = Nil
    /\ lastResult.Signal = SignalFailed
    /\ lastResult.phase = "review2"
    /\ Count("review2") = 2

----
\* C8: a Review phase whose k-th invocation is the first to return REVIEW_DONE
\* (no Error, no earlier Error or FAILED) has succeeded with exactly k invocations,
\* k <= 10; a Review phase that ends without any result carrying an Error,
\* REVIEW_DONE or FAILED fails with the max-review-iterations error exactly when
\* it made 10 invocations, which it does whenever the context stays live, and
\* whatever MaxIterations is; it makes fewer only when its context is done.
C8_ReviewIterations ==
    \A p \in ReviewCalls :
        /\ okAt[p] # 0 =>
              /\ rets[p] = "nil"
              /\ Count(p) = okAt[p]
              /\ okAt[p] <= 10
        /\ Count(p) <= 10
        /\ (rets[p] = "err" /\ ~dirty[p]) =>
              /\ pc = "done"
              /\ (Cause(err) = MaxReviewMsg) <=> (Count(p) = 10)
              /\ ctxErr = Nil => Count(p) = 10
              /\ Count(p) < 10 => (ctxErr # Nil /\ ErrorsIs(err, ctxErr))

C8_Witness ==
    /\ cfg.MaxIterations = 3
    /\ rets["review1"] = "err"
    /\ Cause(err) = MaxReviewMsg
    /\ Count("review1") = 10
    /\ ctxErr = Nil

\* a Review phase that succeeds at a later iteration
C8_WitnessDone ==
    /\ okAt["review2"] = 3
    /\ rets["review2"] = "nil"

----
\* C9 as stated: a run whose latest result is the Analysis invocation's, carrying
\* the FAILED signal and no Error, does not end in success.
C9_AnalysisFailedIsFatal ==
    (/\ lastResult.phase = "codex"
     /\ lastResult.Signal = SignalFailed
     /\ lastResult.Error = Nil
     /\ pc = "done")
        => err # Nil

----
\* C10: a Task or Review iteration that starts with the context done returns the
\* context's error, wrapped (errors.Is context.Canceled when it was canceled),
\* without invoking the executor; and every Task or Review invocation starts
\* with the context live.
C10_CancelAtIteration ==
    [][ /\ (pc = "taskLoop" /\ i <= cfg.MaxIterations /\ ctxErr # Nil) =>
             (pc' = "done" /\ ErrorsIs(err', ctxErr) /\ calls' = calls /\ inflight' = 0
              /\ rets'["task"] = "err")
        /\ (pc = "reviewLoop" /\ i <= 10 /\ ctxErr # Nil) =>
             (pc' = "done" /\ ErrorsIs(err', ctxErr) /\ calls' = calls /\ inflight' = 0
              /\ rets'[pass] = "err")
        /\ (calls' # calls /\ calls'[Len(calls')].phase # "codex") => ctxErr = Nil
      ]_vars

C10_Witness ==
    /\ pc = "done"
    /\ ctxErr = Canceled
    /\ ErrorsIs(err, Canceled)
    /\ rets["review1"] = "err"
    /\ Count("review1") = 2
    /\ inflight = 0

----
\* Vocabulary of the properties about the errors Run returns

\* some error of the chain has this message
Names(e, msg) == \E k \in 1..Len(e) : e[k] = msg

\* the numbers the messages of an error chain contain
NumbersIn(e) ==
    {n \in (-1)..(maxReviewIterations + 1) :
        Names(e, maxIterationsError(n)[1]) \/ Names(e, maxReviewError(n)[1])}

\* the phase a wrapping label names
LabelPhase(label) ==
    CASE label = "task phase" -> "Task"
      [] label = "codex phase" -> "Analysis"
      [] label \in {"first review", "second review", "review"} -> "Review"
      [] OTHER -> "none"

PlanRequiredError == ErrorsNew("plan file required for full mode")

\* Run failed with an executor error, a FAILED signal or an iteration-limit breach
PhaseFailure ==
    /\ pc = "done"
    /\ Cause(err) \in {"exec error", TaskFailedMsg, ReviewFailedMsg, MaxIterationsMsg,
                       MaxReviewMsg}

----
\* C11: in Full mode an empty PlanFile makes Run fail with the plan-file-required
\* error before any executor invocation, plan read or logger call, and an unreadable
\* plan file makes Run fail before any executor invocation, with the read error when
\* the first Task iteration is reached (MaxIterations >= 1 and the context is live);
\* ReviewOnly and AnalysisOnly runs never read the plan file and never fail for it.
C11_PlanFileRequired ==
    /\ (cfg.Mode = ModeFull /\ ~PlanReadable) =>
          /\ calls = <<>>
          /\ pc = "done" => err # Nil
          /\ (pc = "done" /\ cfg.PlanFile = "") =>
                err = PlanRequiredError /\ planReads = 0 /\ logPrints = 0
          /\ (pc = "done" /\ cfg.PlanFile # "" /\ cfg.MaxIterations >= 1 /\ ctxErr = Nil) =>
                /\ planReads = 1
                /\ err = Errorf("task phase", Errorf("read plan file",
                                                     ErrorsNew("no such file")))
    /\ cfg.Mode \in {ModeReview, ModeCodexOnly} =>
          /\ planReads = 0
          /\ err # PlanRequiredError
          /\ ~Names(err, "read plan file")

\* a Full run whose plan file cannot be read has failed
C11_Witness ==
    /\ cfg.Mode = ModeFull
    /\ cfg.PlanFile = "missing.md"
    /\ pc = "done"
    /\ planReads = 1
    /\ Names(err, "read plan file")
    /\ calls = <<>>

\* a ReviewOnly run without a plan file has succeeded
C11_WitnessReviewOnly ==
    /\ cfg.Mode = ModeReview
    /\ cfg.PlanFile = ""
    /\ pc = "done"
    /\ err = Nil

----
\* C12: a Mode outside {Full, ReviewOnly, AnalysisOnly} makes Run fail with the
\* unknown-mode error, with no executor invocation and no logger call.
C12_UnknownMode ==
    cfg.Mode \notin {ModeFull, ModeReview, ModeCodexOnly} =>
        /\ calls = <<>>
        /\ inflight = 0
        /\ logPhase = "none"
        /\ logPrints = 0
        /\ pc \in {"Run", "done"}
        /\ pc = "done" => err = unknownModeError(cfg.Mode)

C12_Witness ==
    /\ cfg.Mode = "invalid"
    /\ pc = "done"
    /\ err = <<"unknown mode: invalid">>
    /\ calls = <<>>

----
\* C14 as stated: whenever the Task phase runs, a review loop makes fewer
\* iterations than MaxIterations.
C14_ReviewCapSmaller ==
    (cfg.Mode = ModeFull /\ rets["task"] # "idle") =>
        \A p \in ReviewCalls : Count(p) < cfg.MaxIterations

\* C14: the cap of a review loop is the constant maxReviewIterations, whatever
\* MaxIterations is: a review loop makes at most maxReviewIterations invocations,
\* its counter is one ahead of the invocations it has made, and its iteration-limit
\* error is returned after exactly maxReviewIterations invocations.
C14_ReviewCapSeparate ==
    \A p \in ReviewCalls :
        /\ Count(p) <= maxReviewIterations
        /\ (pass = p /\ pc = "reviewLoop") => Count(p) = i - 1
        /\ (pass = p /\ pc = "reviewWait") => Count(p) = i
        /\ (rets[p] = "err" /\ Names(err, MaxReviewMsg)) => Count(p) = maxReviewIterations

\* after a Task phase capped below it, a review loop has used its whole cap
C14_Witness ==
    /\ cfg.Mode = ModeFull
    /\ Count("task") >= 1
    /\ cfg.MaxIterations < maxReviewIterations
    /\ Count("review1") = maxReviewIterations
    /\ rets["review1"] = "err"
    /\ Names(err, MaxReviewMsg)

----
\* C15 as stated: when Run fails with an executor error, a FAILED signal or an
\* iteration-limit breach, the error names the phase that failed and, for the Task
\* and Review loops, the number of the iteration at which it failed.
C15_ErrorNamesIteration ==
    PhaseFailure =>
        \A p \in PhaseCalls :
            rets[p] = "err" =>
                /\ LabelPhase(err[1]) = PhaseOf(p)
                /\ p # "codex" => Count(p) \in NumbersIn(err)

\* C15: when Run fails with an executor error, a FAILED signal or an
\* iteration-limit breach, the error is wrapped with the label of the phase that
\* failed; an iteration-limit error contains the cap of its loop and no other
\* number, and the other two kinds of error contain no number at all.
C15_ErrorNamesPhase ==
    PhaseFailure =>
        \A p \in PhaseCalls :
            rets[p] = "err" =>
                /\ LabelPhase(err[1]) = PhaseOf(p)
                /\ NumbersIn(err) =
                      IF Cause(err) = MaxIterationsMsg THEN {cfg.MaxIterations}
                      ELSE IF Cause(err) = MaxReviewMsg THEN {maxReviewIterations}
                      ELSE {}

\* the Task phase failed at its second iteration with an executor error
C15_Witness ==
    /\ pc = "done"
    /\ rets["task"] = "err"
    /\ Count("task") = 2
    /\ err = <<"task phase", "claude execution", "exec error">>

----
\* Vocabulary of the properties about the continue prompt

\* the part of a continue prompt between its two header lines and its closing line
Embedded(p) == SubSeq(p, 3, Len(p) - 5)

\* a byte that continues a multi-byte character
IsContinuation(b) == b = "A9"

\* the number of characters a string encodes
Chars(s) == Cardinality({k \in 1..Len(s) : ~IsContinuation(s[k])})

\* the last n characters of a string of more than n characters
LastChars(s, n) ==
    LET k == CHOOSE j \in 1..Len(s) :
                 ~IsContinuation(s[j]) /\ Chars(SubSeq(s, j, Len(s))) = n
    IN SubSeq(s, k, Len(s))

----
----
\* Vocabulary of the properties about readLines

\* a line without the carriage return it ends with, if it ends with one
DropCR(d) == IF d # <<>> /\ d[Len(d)] = "\r" THEN SubSeq(d, 1, Len(d) - 1) ELSE d

RECURSIVE LinesOf(_)
\* the lines of a stream: each runs up to the next "\n", or to the end of the stream,
\* and is taken without its terminator "\n" or "\r\n"
LinesOf(s) ==
    LET hits == {j \in 1..Len(s) : s[j] = "\n"} IN
    IF s = <<>> THEN <<>>
    ELSE IF hits = {} THEN <<DropCR(s)>>
    ELSE LET j == CHOOSE h \in hits : \A g \in hits : h <= g
         IN <<DropCR(SubSeq(s, 1, j - 1))>> \o LinesOf(SubSeq(s, j + 1, Len(s)))

IsPrefix(s, t) == Len(s) <= Len(t) /\ s = SubSeq(t, 1, Len(s))

----
\* C16 as stated: readLines calls the handler with the lines of the stream, each
\* once, in order and whole: what it has delivered is always a prefix of the lines
\* of a stream read without failure, it is all of them once readLines has returned
\* nil, and readLines returns no error but the cancellation of its context or the
\* failure of the underlying reader.
C16_EveryLineWhole ==
    /\ rdFailAt = -1 => IsPrefix(rdHandled, LinesOf(rdStream))
    /\ (rdPc = "returned" /\ rdErr = Nil) => rdHandled = LinesOf(rdStream)
    /\ rdErr \in {Nil, Canceled, ErrRead}

----
\* C17: within one invocation a detected signal is a token of the vocabulary and
\* no later record of any kind changes it, so the signal changes at most once, from
\* none to a token; and scanning a text a second time gives the signal the first
\* scan gave.
C17_SignalSticky ==
    [][/\ dcSignal # NoSignal => dcSignal' = dcSignal
       /\ dcSignal' \in Signals \cup {NoSignal}
       /\ \A text \in Chunks, kind \in RecordKinds :
            LET once == decodeRecord(dcOutput, dcSignal, [kind |-> kind, text |-> text])
                twice == decodeRecord(once.output, once.signal,
                                      [kind |-> kind, text |-> text])
            IN twice.signal = once.signal]_vars

\* a chunk with the FAILED token has been decoded after COMPLETED was detected
C17_Witness ==
    /\ dcCount >= 2
    /\ dcSignal = SignalCompleted
    /\ dcLast.kind = "delta"
    /\ detectSignal(dcLast.text) = SignalFailed

----
\* Vocabulary of the properties about the progress log

\* the content ends with the footer Close writes
EndsWithFooter(content) ==
    /\ Len(content) >= Len(Footer)
    /\ SubSeq(content, Len(content) - Len(Footer) + 1, Len(content)) = Footer

\* run r opens the log in this step
Opens(r) == lgRun[r] # "open" /\ lgRun'[r] = "open"

----
\* C18 as stated: a NewLogger that gets the lock leaves the header alone in an empty
\* or missing log and in a log that ends with a completion footer, and leaves the
\* prior content followed by a restart separator in any other log.
C18_OpenByFooter ==
    [][\A r \in Runs :
         Opens(r) =>
             lgFile' = IF lgFile = <<>> \/ EndsWithFooter(lgFile) THEN Header
                       ELSE lgFile \o RestartSeparator]_vars

----
\* C19: at most one run has the log open, and it is the holder of the lock; a
\* NewLogger while another run holds the lock fails with the lock error and changes
\* neither the file nor the holder; a run opens the log only in a step from a state
\* where no run holds the lock, and the lock is released only by the Close or the
\* crash of its holder.
C19_OneWriter ==
    [][/\ Cardinality({r \in Runs : lgRun[r] = "open"}) <= 1
       /\ \A r \in Runs : lgRun[r] = "open" <=> lgHolder = r
       /\ \A r \in Runs :
            /\ Opens(r) => lgHolder = "none" /\ lgHolder' = r /\ lgErr'[r] = Nil
            /\ (lgHolder = r /\ lgHolder' # r) =>
                   lgHolder' = "none" /\ lgRun'[r] \in {"closed", "crashed"}
       /\ (lgHolder # "none" /\ lgOpens' = lgOpens + 1) =>
            /\ lgFile' = lgFile
            /\ lgHolder' = lgHolder
            /\ \E r \in Runs \ {lgHolder} : lgRun'[r] = "failed" /\ lgErr'[r] = ErrLocked]_vars

\* a run has opened the log after another run failed on the lock and the holder
\* then crashed
C19_Witness ==
    /\ lgRun["run1"] = "crashed"
    /\ lgRun["run2"] = "open"
    /\ lgHolder = "run2"
    /\ lgOpens = 3

----
\* C20: if the context is canceled while an invocation is in flight, Run eventually
\* returns a Result whose Error wraps the cause of the cancellation, and once it
\* has returned from a canceled invocation no process of the subprocess's group is
\* running.
C20_CancelInFlight ==
    /\ (exPc = "running" /\ exCtx # Nil) ~> (exPc = "returned" /\ ErrorsIs(exErr, exCtx))
    /\ [](exPc = "returned" /\ exCtx # Nil => exProcs = {} /\ ErrorsIs(exErr, exCtx))

\* Run has returned from an invocation canceled while the agent and a descendant
\* were running
C20_Witness ==
    /\ exPc = "returned"
    /\ exCtx = Canceled
    /\ exKilled
    /\ exProcs = {}
    /\ exErr = <<"context error", "context canceled">>

----
\* Vocabulary of the properties about the prompts the executors receive

\* the opening line of each prompt
TaskOpening == "You are executing a plan autonomously."

ContinueOpening == "Continue from where you left off."

AnalysisOpening == "Analyze the current git diff for code quality issues."

FirstReviewOpening == "You are reviewing code changes for quality and correctness."

FollowUpOpening == "You are reviewing code based on external analysis findings."

\* the prompts of the Task and Review phases
PrimaryOpenings == {TaskOpening, ContinueOpening, FirstReviewOpening, FollowUpOpening}

\* the latest invocation is the one of the phase call p that is still in flight
Awaiting(p) ==
    /\ inflight = 1
    /\ calls[Len(calls)].phase = p

----
\* C21: in the Task phase the prompt of iteration 1 is the task prompt with the
\* content of the plan file embedded whole, and the prompt of every later iteration
\* is the continue prompt whose embedded part is the Output the invocation before
\* it returned; the plan file is read at most once in a run, and only on the way
\* to the invocation of iteration 1.
C21_TaskPrompts ==
    /\ [](Awaiting("task") =>
            /\ Count("task") = i
            /\ (i = 1 =>
                  /\ PlanReadable
                  /\ received[1] = TaskOpening
                  /\ Contains(received, Files[cfg.PlanFile])
                  /\ planReads = 1)
            /\ (i > 1 =>
                  /\ lastResult.phase = "task"
                  /\ received[1] = ContinueOpening
                  /\ Embedded(received) = LastN(lastResult.Output, ContinueWindow)
                  /\ ~Contains(received, Files[cfg.PlanFile])))
    /\ [][planReads' # planReads =>
            (planReads = 0 /\ planReads' = 1 /\ Count("task") = 0 /\ Count("task")' <= 1)]_vars

\* the third Task invocation is in flight with the Output of the second in its
\* prompt
C21_Witness ==
    /\ Awaiting("task")
    /\ i = 3
    /\ lastResult.Output = <<"a", "b">>
    /\ Embedded(received) = <<"a", "b">>
    /\ planReads = 1

----
\* C22: a result without Error whose signal is not terminal for its phase does not
\* end the phase.  In the Task phase a result with REVIEW_DONE, CODEX_DONE or no
\* signal, and in a Review phase a result with COMPLETED, CODEX_DONE or no signal,
\* leaves the phase call running at the head of its next iteration; and from there,
\* below the cap and with the context live, the next step is one more invocation
\* of the same phase.
C22_NonTerminalContinues ==
    /\ [][(inflight' = inflight - 1 /\ lastResult'.Error = Nil) =>
            /\ (/\ lastResult'.phase = "task"
                /\ lastResult'.Signal \in {SignalReviewDone, SignalCodexDone, NoSignal}) =>
                   /\ pc' = "taskLoop"
                   /\ i' = i + 1
                   /\ rets' = rets
                   /\ rets["task"] = "active"
                   /\ err' = Nil
            /\ (/\ lastResult'.phase \in ReviewCalls
                /\ lastResult'.Signal \in {SignalCompleted, SignalCodexDone, NoSignal}) =>
                   /\ pc' = "reviewLoop"
                   /\ i' = i + 1
                   /\ pass' = lastResult'.phase
                   /\ rets' = rets
                   /\ rets[pass] = "active"
                   /\ err' = Nil]_vars
    /\ [][(/\ pc = "taskLoop"
           /\ pc' # pc
           /\ 1 < i
           /\ i <= cfg.MaxIterations
           /\ ctxErr = Nil) =>
              (Count("task")' = Count("task") + 1 /\ Awaiting("task")')]_vars
    /\ [][(/\ pc = "reviewLoop"
           /\ pc' # pc
           /\ 1 < i
           /\ i <= maxReviewIterations
           /\ ctxErr = Nil) =>
              (Count(pass)' = Count(pass) + 1 /\ Awaiting(pass)')]_vars

\* the second iteration of a Review phase is in flight after the first returned
\* COMPLETED without Error
C22_Witness ==
    /\ Awaiting("review1")
    /\ i = 2
    /\ lastResult.phase = "review1"
    /\ lastResult.Signal = SignalCompleted
    /\ lastResult.Error = Nil

----
\* C23: the Analysis executor is invoked at most once in a run, whatever the mode
\* and the results, and no Analysis invocation comes after an invocation of the
\* follow-up Review.
C23_AnalysisOnce ==
    /\ Count("codex") <= 1
    /\ \A j, k \in 1..Len(calls) :
           (calls[j].phase = "review2" /\ calls[k].phase = "codex") => k < j

\* a run that made its Analysis invocation and went through the follow-up Review
\* to a successful end
C23_Witness ==
    /\ pc = "done"
    /\ err = Nil
    /\ Count("codex") = 1
    /\ Count("review2") = 2
    /\ rets["review2"] = "nil"

----
\* C24: every Task and Review invocation goes to the primary executor (claude) and
\* every Analysis invocation to the analysis executor (codex); the prompt the
\* analysis executor receives is the analysis prompt, never a task, review or
\* continue prompt, and the primary executor never receives the analysis prompt.
C24_ExecutorRouting ==
    /\ \A k \in 1..Len(calls) :
           calls[k].exec = (IF calls[k].phase = "codex" THEN "codex" ELSE "claude")
    /\ calls # <<>> =>
           IF calls[Len(calls)].exec = "codex"
           THEN received[1] = AnalysisOpening /\ received[1] \notin PrimaryOpenings
           ELSE received[1] \in PrimaryOpenings /\ received[1] # AnalysisOpening

\* a Full run whose Analysis invocation is in flight at the analysis executor,
\* after Task and Review invocations at the primary one
C24_Witness ==
    /\ cfg.Mode = ModeFull
    /\ Awaiting("codex")
    /\ calls[Len(calls)].exec = "codex"
    /\ received = buildCodexPrompt
    /\ calls[1] = [exec |-> "claude", phase |-> "task"]
    /\ Count("review1") = 2

----
\* Vocabulary of the properties about the outcome of Run

\* the phase calls Run entered
Ran == {p \in PhaseCalls : rets[p] # "idle"}

\* the phase call p returned nil, and the last invocation it made is the one whose
\* result met the success condition of its phase, with no Error
EndedOnSuccess(p) ==
    /\ rets[p] = "nil"
    /\ Count(p) >= 1
    /\ okAt[p] = Count(p)

Failed == {p \in PhaseCalls : rets[p] = "err"}

----
\* C25: Run returns nil only if every phase it entered ended on the success
\* condition of that phase, met by an error-free result: COMPLETED for Task,
\* REVIEW_DONE for each Review, any error-free result for Analysis.  When some
\* phase it entered ended otherwise, Run returns an error, and it is the error of
\* that one phase: no second phase failed, and none is left running.
C25_SuccessNeedsEveryPhase ==
    pc = "done" =>
        /\ err = Nil => (Ran # {} /\ \A p \in Ran : EndedOnSuccess(p))
        /\ (\E p \in Ran : ~EndedOnSuccess(p)) =>
              /\ err # Nil
              /\ Cardinality(Failed) = 1
              /\ \A p \in Ran \ Failed : EndedOnSuccess(p)
              /\ LabelPhase(err[1]) = PhaseOf(CHOOSE p \in Failed : TRUE)
        /\ err # Nil => Cardinality(Failed) <= 1

\* a Full run that succeeded after two Task iterations and all four phases
C25_Witness ==
    /\ pc = "done"
    /\ err = Nil
    /\ cfg.Mode = ModeFull
    /\ Ran = PhaseCalls
    /\ Count("task") = 2
    /\ \A p \in PhaseCalls : EndedOnSuccess(p)

----
\* C26 as stated: the prompt of every invocation of the follow-up Review phase,
\* the first and the ones after a non-terminal iteration alike, contains the
\* findings text the Analysis invocation returned.
C26_FindingsInEveryPrompt ==
    Awaiting("review2") =>
        /\ analysis.Output # <<>>
        /\ Contains(received, analysis.Output)

----
\* the signals a prompt asks the agent to emit
AskedFor(text) == {sig \in Signals : Contains(text, <<sig>>)}

\* C27 as stated: every prompt sent during a Review phase, the continuation prompts
\* included, asks for REVIEW_DONE, and asks for no signal the Review loop treats as
\* non-terminal (COMPLETED, CODEX_DONE).
C27_ReviewPromptsAskReviewDone ==
    (Awaiting("review1") \/ Awaiting("review2")) =>
        /\ SignalReviewDone \in AskedFor(received)
        /\ AskedFor(received) \subseteq {SignalReviewDone, SignalFailed}

----
\* Vocabulary of the property about two runs

\* the signals an error-free Analysis result may carry in the two runs compared
AnalysisSignals == {NoSignal, SignalCodexDone, SignalCompleted, SignalReviewDone}

\* the error-free Analysis result with this Output and Signal
AnalysisResult(output, signal) == [Output |-> output, Signal |-> signal, Error |-> Nil]

\* Two runs that are in the same state while their Analysis invocation is in flight,
\* and whose Analysis results r1 and r2 then return, agree afterwards on everything
\* the runner holds and has done: where it is, the phase call and iteration, the
\* prompt it will send, the findings, the returns of the phase calls, the error,
\* the log, the invocations made.  The step is a function of the result, so
\* agreement on each fact is agreement on the state.  From equal states, equal
\* later results give equal later steps.
SameContinuation(r1, r2) ==
    /\ ENABLED (runCodexPhaseReturns(r1) /\ pc' = "done")
          <=> ENABLED (runCodexPhaseReturns(r2) /\ pc' = "done")
    /\ ENABLED (runCodexPhaseReturns(r1) /\ pc' = "reviewLoop" /\ pass' = "review2" /\ i' = 1)
          <=> ENABLED (runCodexPhaseReturns(r2) /\ pc' = "reviewLoop" /\ pass' = "review2"
                        /\ i' = 1)
    /\ ENABLED (runCodexPhaseReturns(r1) /\ err' = Nil)
          <=> ENABLED (runCodexPhaseReturns(r2) /\ err' = Nil)
    /\ \A p \in PhaseCalls, v \in {"idle", "active", "nil", "err"} :
          ENABLED (runCodexPhaseReturns(r1) /\ rets'[p] = v)
             <=> ENABLED (runCodexPhaseReturns(r2) /\ rets'[p] = v)
    /\ \A f \in Outputs :
          /\ ENABLED (runCodexPhaseReturns(r1) /\ findings' = f)
                <=> ENABLED (runCodexPhaseReturns(r2) /\ findings' = f)
          /\ ENABLED (runCodexPhaseReturns(r1) /\ prompt' = buildSecondReviewPrompt(f))
                <=> ENABLED (runCodexPhaseReturns(r2) /\ prompt' = buildSecondReviewPrompt(f))
    /\ ENABLED (runCodexPhaseReturns(r1) /\ prompt' = prompt /\ lastOutput' = lastOutput)
          <=> ENABLED (runCodexPhaseReturns(r2) /\ prompt' = prompt /\ lastOutput' = lastOutput)
    /\ \A ph \in {"Review", "Analysis"}, n \in 0..2 :
          ENABLED (runCodexPhaseReturns(r1) /\ logPhase' = ph /\ logPrints' = logPrints + n)
             <=> ENABLED (runCodexPhaseReturns(r2) /\ logPhase' = ph
                           /\ logPrints' = logPrints + n)
    /\ ENABLED (runCodexPhaseReturns(r1) /\ calls' = calls /\ inflight' = 0)
          <=> ENABLED (runCodexPhaseReturns(r2) /\ calls' = calls /\ inflight' = 0)

\* C28: whether the follow-up Review runs depends on the Output of the error-free
\* Analysis result only, not on its Signal: two runs alike up to the return of the
\* Analysis invocation, whose results have the same Output and any two of the
\* signals none, CODEX_DONE, COMPLETED, REVIEW_DONE, continue alike; and the
\* follow-up Review is entered exactly when that Output is not empty.
C28_SignalBlindAnalysis ==
    pc = "codexWait" =>
        \A output \in Outputs, sig \in AnalysisSignals :
            /\ SameContinuation(AnalysisResult(output, NoSignal), AnalysisResult(output, sig))
            /\ ENABLED (runCodexPhaseReturns(AnalysisResult(output, sig))
                          /\ pc' = "reviewLoop")
                  <=> output # <<>>

\* the follow-up Review is about to start after an error-free Analysis result that
\* carried COMPLETED and a non-empty Output
C28_Witness ==
    /\ pc = "reviewLoop"
    /\ pass = "review2"
    /\ Count("review2") = 0
    /\ lastResult.phase = "codex"
    /\ lastResult.Signal = SignalCompleted
    /\ lastResult.Error = Nil
    /\ lastResult.Output # <<>>

----
\* C29 as stated: when the context is already done as the Analysis phase is about
\* to start, the runner's next step is the return of the context's error, wrapped,
\* and the Analysis executor is not invoked.
C29_CancelBeforeAnalysis ==
    [][(pc = "codex" /\ ctxErr # Nil /\ pc' # pc) =>
          /\ pc' = "done"
          /\ ErrorsIs(err', ctxErr)
          /\ calls' = calls]_vars

----
\* Vocabulary of the property about termination

Max(a, b) == IF a >= b THEN a ELSE b

\* the most invocations a run of each mode makes
InvocationBound ==
    CASE cfg.Mode = ModeFull -> Max(cfg.MaxIterations, 0) + 21
      [] cfg.Mode = ModeReview -> 21
      [] cfg.Mode = ModeCodexOnly -> 11
      [] OTHER -> 0

\* C30: when every executor invocation returns, every Run returns; and a run makes
\* at most max(MaxIterations, 0) Task invocations, 10 invocations in each Review
\* phase and 1 Analysis invocation, which is at most max(MaxIterations, 0) + 21
\* invocations in Full mode, 21 in ReviewOnly mode and 11 in AnalysisOnly mode.
C30_Terminates ==
    /\ <>(pc = "done")
    /\ [](/\ Count("task") <= Max(cfg.MaxIterations, 0)
          /\ Count("review1") <= 10
          /\ Count("codex") <= 1
          /\ Count("review2") <= 10
          /\ Len(calls) <= InvocationBound)

\* a Full run that returned after as many invocations as its mode allows
C30_Witness ==
    /\ pc = "done"
    /\ cfg.Mode = ModeFull
    /\ cfg.MaxIterations = MaxTaskIterations
    /\ Len(calls) = InvocationBound
    /\ Count("review2") = 10

----
\* C31 as stated: when Run fails on a FAILED signal of a Task or Review invocation,
\* the error it returns carries the Output of that invocation.
C31_FailureCarriesOutput ==
    (/\ pc = "done"
     /\ lastResult.phase \in {"task"} \cup ReviewCalls
     /\ lastResult.Signal = SignalFailed
     /\ lastResult.Error = Nil) =>
        /\ Cause(err) \in {TaskFailedMsg, ReviewFailedMsg}
        /\ Contains(err, lastResult.Output)

----
\* C32: while an executor invocation is in flight the phase last set on the logger
\* is the phase of that invocation; no invocation is made before a phase has been
\* set; and a run that skips the follow-up Review ends with the logger still on
\* Analysis.
C32_LoggerPhase ==
    /\ calls # <<>> => logPhase # "none"
    /\ inflight = 1 => logPhase = PhaseOf(calls[Len(calls)].phase)
    /\ (pc = "done" /\ rets["codex"] = "nil" /\ rets["review2"] = "idle") =>
          (logPhase = "Analysis" /\ analysis.Output = <<>>)

\* the follow-up Review of a Full run is in flight, the fourth phase the logger was
\* set to
C32_Witness ==
    /\ cfg.Mode = ModeFull
    /\ Awaiting("review2")
    /\ logPhase = "Review"
    /\ Count("codex") = 1
    /\ Count("task") >= 1

\* a run that skipped the follow-up Review has returned
C32_WitnessSkipped ==
    /\ pc = "done"
    /\ err = Nil
    /\ rets["review2"] = "idle"
    /\ logPhase = "Analysis"

----
\* C33 as stated: a NewLogger that gets the lock after an earlier session on the
\* file truncates the log (leaves the header alone) if and only if that session
\* ended with Close; after a session that crashed, whatever it wrote, the content
\* is kept and a restart separator appended.
C33_TruncateIffClosed ==
    [][\A r \in Runs :
         (Opens(r) /\ lgEnded # "none") =>
             /\ lgFile' = Header <=> lgEnded = "closed"
             /\ lgEnded = "crashed" => lgFile' = lgFile \o RestartSeparator]_vars

----
\* C34: a NewLogger tried while another run holds the lock fails at once with the
\* lock error, writes nothing to the log and truncates nothing, leaves the lock
\* with its holder and the holder's session open, and changes no other run.
C34_ContentionChangesNothing ==
    [][(lgHolder # "none" /\ lgOpens' = lgOpens + 1) =>
          /\ lgFile' = lgFile
          /\ lgHolder' = lgHolder
          /\ lgRun'[lgHolder] = "open"
          /\ lgWrites' = lgWrites
          /\ \E r \in Runs \ {lgHolder} :
                /\ lgRun'[r] = "failed"
                /\ lgErr'[r] = ErrLocked
                /\ \A q \in Runs \ {r} : lgRun'[q] = lgRun[q]]_vars

\* a run has failed on the lock while the holder's log holds the header and an
\* entry
C34_Witness ==
    /\ lgHolder = "run1"
    /\ lgRun["run2"] = "failed"
    /\ lgErr["run2"] = ErrLocked
    /\ lgFile = Header \o <<"line">>

----
\* Vocabulary of the properties about the end of the stream and cancellation

\* the offset at which the stream ends or fails
Limit == IF rdFailAt >= 0 THEN rdFailAt ELSE Len(rdStream)

\* the bytes readLines has not consumed
Remainder == SubSeq(rdStream, rdPos + 1, Limit)

\* no line terminator is left before the end or the failure of the stream
LastRead == \A k \in 1..Len(Remainder) : Remainder[k] # "\n"

\* the line is the text without some trailing carriage returns
WithoutTrailingCR(line, text) ==
    /\ IsPrefix(line, text)
    /\ \A k \in (Len(line) + 1)..Len(text) : text[k] = "\r"

----
\* C35: the read that reaches the end of the input ends readLines with nil, after
\* one call of the handler with the final partial line when bytes were left, and
\* after no call when none were; the read that meets a failure of the underlying
\* reader ends readLines with that error; and readLines never returns nil on a
\* stream that failed.
C35_EndOfInput ==
    /\ [][(rdPc = "read" /\ rdPc' # rdPc /\ LastRead) =>
            /\ rdPc' = "returned"
            /\ rdErr' = (IF rdFailAt = -1 THEN Nil ELSE ErrRead)
            /\ IF Remainder = <<>>
               THEN rdHandled' = rdHandled
               ELSE /\ Len(rdHandled') = Len(rdHandled) + 1
                    /\ SubSeq(rdHandled', 1, Len(rdHandled)) = rdHandled
                    /\ WithoutTrailingCR(rdHandled'[Len(rdHandled')], Remainder)]_vars
    /\ []((rdPc = "returned" /\ rdErr = Nil) => (rdFailAt = -1 /\ rdPos = Len(rdStream)))

\* readLines has returned nil after a line and a final partial line
C35_Witness ==
    /\ rdPc = "returned"
    /\ rdErr = Nil
    /\ rdCtx = Nil
    /\ rdStream = <<"x", "\n", "x", "x">>
    /\ rdHandled = << <<"x">>, <<"x", "x">> >>

----
\* the lines delivered after the cancellation are at most the one whose read was
\* in progress when the context was canceled
AtMostTheLineInProgress ==
    rdCtx # Nil =>
        /\ IsPrefix(SubSeq(rdHandled, 1, rdCancel.handled), rdHandled)
        /\ Len(rdHandled) <= rdCancel.handled + (IF rdCancel.pc = "read" THEN 1 ELSE 0)

\* C36 as stated: after the context is canceled at most the line whose read was in
\* progress is delivered, and readLines then returns the context's error, never
\* success.
C36_CancelReturnsCtxErr ==
    /\ AtMostTheLineInProgress
    /\ (rdPc = "returned" /\ rdCtx # Nil) => rdErr = rdCtx

\* C36 amended: after the context is canceled at most the line whose read was in
\* progress is delivered, and readLines returns the context's error at its next
\* select, whether or not unread input remains; unless the read in progress is the
\* one that reaches the end of the input or the failure of the reader, in which
\* case readLines returns what it returns without cancellation: nil, or the
\* reader's error.
C36_CancelAtLineBoundary ==
    /\ AtMostTheLineInProgress
    /\ (rdPc = "returned" /\ rdCtx # Nil) =>
          /\ rdErr # rdCtx =>
                /\ rdCancel.pc = "read"
                /\ rdPos = Limit
                /\ rdErr = (IF rdFailAt = -1 THEN Nil ELSE ErrRead)
          /\ rdCancel.pc = "loop" => (rdErr = rdCtx /\ Len(rdHandled) = rdCancel.handled)
          /\ rdPos < Limit => rdErr = rdCtx

\* readLines has returned the context's error with input unread, after the one
\* line whose read was in progress at the cancellation
C36_Witness ==
    /\ rdPc = "returned"
    /\ rdErr = Canceled
    /\ rdCancel.pc = "read"
    /\ Len(rdHandled) = rdCancel.handled + 1
    /\ rdFailAt = -1
    /\ rdPos < Len(rdStream)

----
\* C37 as stated: on every stream that readLines reads to its end it has called
\* the handler with the lines bufio.Scanner with ScanLines yields: each line
\* without its one terminator, "\n" or "\r\n", and otherwise unchanged, an empty
\* line as the empty string.
C37_SameAsScanLines ==
    (rdPc = "returned" /\ rdErr = Nil /\ rdCtx = Nil) =>
        /\ Len(rdHandled) = Len(LinesOf(rdStream))
        /\ \A k \in 1..Len(rdHandled) : rdHandled[k] = LinesOf(rdStream)[k]

----
\* a record is decoded in this step
Decoded == dcCount' = dcCount + 1

\* C38 as stated: a record of an unrecognized kind leaves the accumulated output
\* and the detected signal as they were, and a result record appends its result
\* text to the output and leaves the signal as it was, detected or not.
C38_ResultNeverAssigns ==
    [][Decoded =>
          /\ dcLast'.kind = "other" => (dcOutput' = dcOutput /\ dcSignal' = dcSignal)
          /\ dcLast'.kind = "result" =>
                (dcOutput' = dcOutput \o dcLast'.text /\ dcSignal' = dcSignal)]_vars

----
\* C39: a line that is not a well-formed event is appended to the accumulated
\* output as it is and sets no error; the decoding of a stream never ends on an
\* error, so after such a line every later event is still decoded: a text chunk
\* that follows is appended like any other.
C39_MalformedLineNotFatal ==
    /\ [][(Decoded /\ dcLast'.kind = "opaque") =>
            (dcOutput' = dcOutput \o dcLast'.text /\ dcErr' = Nil)]_vars
    /\ [](dcErr = Nil)
    /\ [](dcCount < MaxRecords =>
            \A text \in Chunks :
                ENABLED (/\ Decode
                         /\ dcLast' = [kind |-> "delta", text |-> text]
                         /\ dcOutput' = dcOutput \o text
                         /\ dcSignal' = scanChunk(dcSignal, text)))

\* after a malformed line whose text held the COMPLETED token, appended and not
\* scanned, a text chunk has been decoded and its REVIEW_DONE detected
C39_Witness ==
    /\ dcCount = 2
    /\ dcLast = [kind |-> "delta", text |-> <<SignalReviewDone>>]
    /\ dcOutput = <<"t", SignalCompleted, SignalReviewDone>>
    /\ dcSignal = SignalReviewDone
    /\ dcErr = Nil

====
